---- MODULE Spec2Model ----
(***************************************************************************)
(* A model of the county enrichment tool: the row selection and the        *)
(* enrichment loop of CountyDataProcessor (data_processor.py), the Census   *)
(* geocoding client (geocoder.py) and the compare / split utilities        *)
(* (utils.py).                                                             *)
(*                                                                         *)
(* Text is modelled as a sequence of one-character strings, so that        *)
(* str.strip, str.upper and str.replace are computed character by          *)
(* character.  A missing cell (NaN / None) is the one-element sequence     *)
(* <<"NaN">>, which no text equals because "NaN" is not one character.     *)
(***************************************************************************)
EXTENDS Integers, Sequences, FiniteSets, TLC

VARIABLES
    df,          \* the DataFrame the caller holds: a sequence of rows
    stats,       \* CountyDataProcessor.stats
    pc,          \* position inside / between the public methods
    selected,    \* index of missing_df: the row positions identify selected
    k,           \* progress_num of the row last handed to process_row
    hasCallback, \* whether process_dataframe was given a progress_callback
    runs,        \* process_dataframe calls made on this processor
    snap,        \* the DataFrame as it was when identify last ran
    loaded,      \* load_csv returned df to the caller
    identified,  \* identify_missing_counties ran on df
    geocodedRows,\* row positions whose CountyName a successful lookup set
    lastCounty,  \* what the last geocode_address call returned
    anySuccess,  \* some lookup of this processor returned a truthy value
    events,      \* what the current process_dataframe call did so far, in order
    gPc,         \* a direct client of the geocoder: "call", "wait", "raised"
    gCalls,      \* geocode_address calls that client made
    gSent,       \* HTTP requests sent on its behalf
    gWaits,      \* wait() calls it made
    gResp,       \* the endpoint's answer to its last call
    gRet,        \* what its last call returned or raised
    uOriginal,   \* the file given to compare_csvs as original_file
    uUpdated,    \* the file given as updated_file, and to export_by_county
    uPc,         \* the utilities: "start", "compared" or "exported"
    uComparison, \* what compare_csvs returned
    uDir,        \* output_dir: file name -> the source positions of its rows
    hCalled,     \* _needs_geocoding was asked about every row of df
    hNeeds,      \* what it answered, row by row
    cDf,         \* the DataFrame handed to DataCleaner: its columns and rows
    cOnce,       \* that DataFrame as the first application left it
    cCalls,      \* applications of the transform so far
    cMethod,     \* the DataCleaner method being applied
    cDefaults,   \* the defaults given to fill_missing_values
    cCow,        \* pandas runs in copy-on-write mode
    cRaised,     \* the last application raised
    dfColumns,   \* df.columns of the DataFrame process_csv_file loaded
    saved,       \* save_csv was called
    outFile      \* the rows of output_file

pvars == <<df, stats, pc, selected, k, hasCallback, runs, snap, loaded,
           identified, geocodedRows, lastCounty, anySuccess, events>>
gvars == <<gPc, gCalls, gSent, gWaits, gResp, gRet>>
uvars == <<uOriginal, uUpdated, uPc, uComparison, uDir>>
hvars == <<hCalled, hNeeds>>
cvars == <<cDf, cOnce, cCalls, cMethod, cDefaults, cCow, cRaised>>
fvars == <<dfColumns, saved, outFile>>
vars == <<pvars, gvars, uvars, hvars, cvars, fvars>>

-----------------------------------------------------------------------------
(* Bounds *)

MaxRows == 2
MaxRuns == 2
MaxCalls == 3
MaxApply == 2

-----------------------------------------------------------------------------
(* Text *)

NaN == <<"NaN">>
IsNa(v) == v = NaN

LowerLetters == <<"a","b","c","d","e","f","g","h","i","j","k","l","m",
                  "n","o","p","q","r","s","t","u","v","w","x","y","z">>
UpperLetters == <<"A","B","C","D","E","F","G","H","I","J","K","L","M",
                  "N","O","P","Q","R","S","T","U","V","W","X","Y","Z">>

\* str.upper on one character
UpperChar(c) ==
    IF \E i \in 1..26 : LowerLetters[i] = c
    THEN UpperLetters[CHOOSE i \in 1..26 : LowerLetters[i] = c]
    ELSE c

\* str.upper
Upper(s) == [i \in 1..Len(s) |-> UpperChar(s[i])]

\* str.isspace on one character
IsSpace(c) == c \in {" ", "\t"}

RECURSIVE LStrip(_)
LStrip(s) == IF s # <<>> /\ IsSpace(Head(s)) THEN LStrip(Tail(s)) ELSE s

RECURSIVE RStrip(_)
RStrip(s) ==
    IF s # <<>> /\ IsSpace(s[Len(s)]) THEN RStrip(SubSeq(s, 1, Len(s) - 1)) ELSE s

\* str.strip
Strip(s) == RStrip(LStrip(s))

\* Series.astype(str) on one cell: a missing cell becomes the text "nan"
AsStr(v) == IF IsNa(v) THEN <<"n","a","n">> ELSE v

UNKNOWN == <<"U","N","K","N","O","W","N">>

-----------------------------------------------------------------------------
(* Datasets *)

DeKalb == <<"D","e","K","a","l","b">>
Fulton == <<"F","u","l","t","o","n">>
Unknown == <<"U","n","k","n","o","w","n">>

\* the county fields of the files the enrichment loop is run on
CountyValues == {<<>>, Unknown, Fulton}

\* the county cells the row selection alone is run on
SelectionValues ==
    CountyValues \cup
    { NaN,
      <<" ">>,
      <<"\t"," ">>,
      UNKNOWN,
      <<"u","n","k","n","o","w","n">>,
      <<" ","u","n","k","n","o","w","n">>,
      <<"U","N","K","N","O","W","N"," ">>,
      <<"U","N","K","N","O","W","N","S">>,
      <<"n","a","n">>,
      <<" ","F","u","l","t","o","n","\t">>,
      <<"F","u","l","t","o","n"," ","C","o","u","n","t","y">> }

Addresses == {"12 Oak St"}

Row(a, c) == [StreetAddress |-> a, City |-> "Atlanta", State |-> "GA",
              Zipcode |-> "30329", CountyName |-> c]

Rows == {Row(a, c) : a \in Addresses, c \in CountyValues}
SelectionRows == {Row(a, c) : a \in Addresses, c \in SelectionValues}

SeqsUpTo(S, n) == UNION {[1..m -> S] : m \in 0..n}

\* the files on disk: rows of text
Files == SeqsUpTo(Rows, MaxRows)
SelectionDataframes == SeqsUpTo(SelectionRows, MaxRows)

\* pandas.read_csv on one cell: an empty field is read as missing
ReadCsvCell(text) == IF text = <<>> THEN NaN ELSE text

ReadCsv(file) ==
    [i \in 1..Len(file) |->
        [file[i] EXCEPT !.CountyName = ReadCsvCell(file[i].CountyName)]]

-----------------------------------------------------------------------------
(* Python values as the geocoder sees them: parsed JSON, tagged by type.    *)
(* n is the number, s the characters of the text, a the elements of the    *)
(* list and o the items of the dictionary, each a [key, val] pair.         *)

JNull == [t |-> "null", n |-> 0, s |-> <<>>, a |-> <<>>, o |-> <<>>]
JNum(n) == [t |-> "num", n |-> n, s |-> <<>>, a |-> <<>>, o |-> <<>>]
JStr(s) == [t |-> "str", n |-> 0, s |-> s, a |-> <<>>, o |-> <<>>]
JArr(xs) == [t |-> "arr", n |-> 0, s |-> <<>>, a |-> xs, o |-> <<>>]
JObj(items) == [t |-> "obj", n |-> 0, s |-> <<>>, a |-> <<>>, o |-> items]

Keys(x) == {x.o[i].key : i \in 1..Len(x.o)}
Item(x, key) == x.o[CHOOSE i \in 1..Len(x.o) : x.o[i].key = key].val

None == JNull

\* the outcome of evaluating Python code: a value, or an exception raised
Return(x) == [exc |-> "", val |-> x]
Raise(e) == [exc |-> e, val |-> None]

\* the characters of the dictionary keys geocode_address looks up
Chars(key) ==
    CASE key = "result" -> <<"r","e","s","u","l","t">>
      [] key = "addressMatches" ->
            <<"a","d","d","r","e","s","s","M","a","t","c","h","e","s">>
      [] key = "geographies" -> <<"g","e","o","g","r","a","p","h","i","e","s">>
      [] key = "Counties" -> <<"C","o","u","n","t","i","e","s">>
      [] key = "NAME" -> <<"N","A","M","E">>

IsSubstring(a, b) ==
    /\ Len(a) <= Len(b)
    /\ \E i \in 0..(Len(b) - Len(a)) : SubSeq(b, i + 1, i + Len(a)) = a

\* key in x
PyIn(key, x) ==
    CASE x.t = "obj" -> Return(key \in Keys(x))
      [] x.t = "arr" -> Return(\E i \in 1..Len(x.a) : x.a[i] = JStr(Chars(key)))
      [] x.t = "str" -> Return(IsSubstring(Chars(key), x.s))
      [] OTHER -> Raise("TypeError")

\* x[key], key a string
PyGetKey(x, key) ==
    CASE x.t = "obj" -> IF key \in Keys(x) THEN Return(Item(x, key)) ELSE Raise("KeyError")
      [] OTHER -> Raise("TypeError")

\* x[0]
PyGetFirst(x) ==
    CASE x.t = "arr" -> IF x.a # <<>> THEN Return(x.a[1]) ELSE Raise("IndexError")
      [] x.t = "str" -> IF x.s # <<>> THEN Return(JStr(<<x.s[1]>>)) ELSE Raise("IndexError")
      [] x.t = "obj" -> Raise("KeyError")
      [] OTHER -> Raise("TypeError")

\* bool(x)
PyTruthy(x) ==
    CASE x.t = "null" -> FALSE
      [] x.t = "num" -> x.n # 0
      [] x.t = "str" -> x.s # <<>>
      [] x.t = "arr" -> x.a # <<>>
      [] x.t = "obj" -> x.o # <<>>

\* len(x)
PyLen(x) ==
    CASE x.t = "str" -> Return(Len(x.s))
      [] x.t = "arr" -> Return(Len(x.a))
      [] x.t = "obj" -> Return(Len(x.o))
      [] OTHER -> Raise("TypeError")

\* x.get(key, default)
PyGet(x, key, default) ==
    CASE x.t = "obj" -> Return(IF key \in Keys(x) THEN Item(x, key) ELSE default)
      [] OTHER -> Raise("AttributeError")

\* x and len(x) > 0
NonEmpty(x) ==
    IF ~PyTruthy(x) THEN Return(FALSE)
    ELSE LET n == PyLen(x) IN IF n.exc # "" THEN n ELSE Return(n.val > 0)

\* key1 in x and key2 in x[key1]
HasPath(x, key1, key2) ==
    LET a == PyIn(key1, x) IN
    IF a.exc # "" \/ ~a.val THEN a
    ELSE LET y == PyGetKey(x, key1) IN
         IF y.exc # "" THEN y ELSE PyIn(key2, y.val)

\* x[key1][key2]
GetPath(x, key1, key2) ==
    LET y == PyGetKey(x, key1) IN
    IF y.exc # "" THEN y ELSE PyGetKey(y.val, key2)

-----------------------------------------------------------------------------
(* CensusGeocoder.geocode_address *)

\* counties[0].get('NAME', '') once the county list is in hand
FromCounties(counties) ==
    LET ne == NonEmpty(counties) IN
    IF ne.exc # "" THEN ne
    ELSE IF ~ne.val THEN Return(None)
    ELSE LET c == PyGetFirst(counties) IN
         IF c.exc # "" THEN c ELSE PyGet(c.val, "NAME", JStr(<<>>))

\* the first match's counties
FromMatches(matches) ==
    LET ne == NonEmpty(matches) IN
    IF ne.exc # "" THEN ne
    ELSE IF ~ne.val THEN Return(None)
    ELSE LET m == PyGetFirst(matches) IN
         IF m.exc # "" THEN m
         ELSE LET has == HasPath(m.val, "geographies", "Counties") IN
              IF has.exc # "" THEN has
              ELSE IF ~has.val THEN Return(None)
              ELSE LET cs == GetPath(m.val, "geographies", "Counties") IN
                   IF cs.exc # "" THEN cs ELSE FromCounties(cs.val)

\* the extraction of the county from the parsed response
ExtractCounty(data) ==
    LET has == HasPath(data, "result", "addressMatches") IN
    IF has.exc # "" THEN has
    ELSE IF ~has.val THEN Return(None)
    ELSE LET ms == GetPath(data, "result", "addressMatches") IN
         IF ms.exc # "" THEN ms ELSE FromMatches(ms.val)

HttpTimeout == 10

RequestExceptions == {"ConnectionError", "Timeout", "HTTPError", "JSONDecodeError"}

\* requests.get(..., timeout=10): a reply, or a transport exception
RequestsGet(resp) ==
    IF resp.transport = "unreachable" THEN Raise("ConnectionError")
    ELSE IF resp.delay > HttpTimeout THEN Raise("Timeout")
    ELSE Return(resp)

\* response.raise_for_status()
RaiseForStatus(resp) ==
    IF resp.status >= 400 THEN Raise("HTTPError") ELSE Return(None)

\* response.json()
ResponseJson(resp) ==
    IF resp.malformed THEN Raise("JSONDecodeError") ELSE Return(resp.data)

\* the body of the try block; sent counts the requests.get calls
GeocodeTry(resp) ==
    LET got == RequestsGet(resp) IN
    IF got.exc # "" THEN [exc |-> got.exc, val |-> None, sent |-> 1]
    ELSE LET st == RaiseForStatus(resp) IN
         IF st.exc # "" THEN [exc |-> st.exc, val |-> None, sent |-> 1]
         ELSE LET data == ResponseJson(resp) IN
              IF data.exc # "" THEN [exc |-> data.exc, val |-> None, sent |-> 1]
              ELSE LET r == ExtractCounty(data.val) IN
                   [exc |-> r.exc, val |-> r.val, sent |-> 1]

\* a variant that lets anything but a RequestException escape
geocode_address_narrow(resp) ==
    LET r == GeocodeTry(resp) IN
    IF r.exc = "" THEN r
    ELSE IF r.exc \in RequestExceptions
         THEN [exc |-> "", val |-> None, sent |-> r.sent]
         ELSE r

geocode_address(resp) ==
    LET r == GeocodeTry(resp) IN
    IF r.exc = "" THEN r
    ELSE IF r.exc \in RequestExceptions
         THEN [exc |-> "", val |-> None, sent |-> r.sent]
         ELSE [exc |-> "", val |-> None, sent |-> r.sent]

-----------------------------------------------------------------------------
(* Responses of the geocoding endpoint *)

Obj1(key, x) == JObj(<<[key |-> key, val |-> x]>>)
EmptyObj == JObj(<<>>)
CountyEntry(name) == Obj1("NAME", JStr(name))
MatchWith(counties) == Obj1("geographies", Obj1("Counties", counties))
BodyWith(matches) == Obj1("result", Obj1("addressMatches", matches))
OneCounty(entry) == BodyWith(JArr(<<MatchWith(JArr(<<entry>>))>>))

\* bodies of the expected shape
ShapedBodies ==
    { OneCounty(CountyEntry(DeKalb)),
      OneCounty(CountyEntry(Unknown)),
      BodyWith(JArr(<<MatchWith(JArr(<<CountyEntry(DeKalb), CountyEntry(Fulton)>>))>>)),
      BodyWith(JArr(<<MatchWith(JArr(<<CountyEntry(Fulton)>>)),
                      MatchWith(JArr(<<CountyEntry(DeKalb)>>))>>)) }

\* bodies that deviate from it somewhere
DeviantBodies ==
    { JNull,
      JArr(<<>>),
      JArr(<<JStr(Chars("result"))>>),
      EmptyObj,
      Obj1("result", JNull),
      Obj1("result", EmptyObj),
      Obj1("result", JStr(Chars("addressMatches"))),
      BodyWith(JNull),
      BodyWith(JNum(1)),
      BodyWith(JStr(<<"x">>)),
      BodyWith(JArr(<<>>)),
      BodyWith(JArr(<<JNull>>)),
      BodyWith(JArr(<<EmptyObj>>)),
      BodyWith(JArr(<<Obj1("geographies", JNull)>>)),
      BodyWith(JArr(<<Obj1("geographies", EmptyObj)>>)),
      BodyWith(JArr(<<MatchWith(JNull)>>)),
      BodyWith(JArr(<<MatchWith(JArr(<<>>))>>)),
      BodyWith(JArr(<<MatchWith(Obj1("0", CountyEntry(DeKalb)))>>)),
      OneCounty(JStr(DeKalb)),
      OneCounty(EmptyObj),
      OneCounty(CountyEntry(<<>>)),
      OneCounty(Obj1("NAME", JNull)),
      OneCounty(Obj1("NAME", JNum(13))) }

Reply(status, data) ==
    [transport |-> "ok", delay |-> 1, status |-> status, malformed |-> FALSE,
     data |-> data]

Responses ==
    {Reply(200, d) : d \in ShapedBodies \cup DeviantBodies}
    \cup {Reply(s, OneCounty(CountyEntry(DeKalb))) : s \in {404, 500}}
    \cup { [transport |-> "ok", delay |-> 1, status |-> 304,
            malformed |-> TRUE, data |-> JNull] }
    \cup { [transport |-> "unreachable", delay |-> 0, status |-> 0,
            malformed |-> TRUE, data |-> JNull],
           [transport |-> "ok", delay |-> HttpTimeout + 1, status |-> 0,
            malformed |-> TRUE, data |-> JNull],
           [transport |-> "ok", delay |-> 1, status |-> 200,
            malformed |-> TRUE, data |-> JNull] }

\* the responses the enrichment loop is driven with: those whose county is text
PipelineResponses ==
    {r \in Responses : r.transport # "ok" \/ r.status # 200 \/ r.malformed
        \/ r.data \in ShapedBodies
        \/ r.data \in {BodyWith(JArr(<<>>)), OneCounty(EmptyObj),
                       OneCounty(Obj1("NAME", JNull)), BodyWith(JArr(<<JNull>>))}}

-----------------------------------------------------------------------------
(* CountyDataProcessor *)

\* what geocode_address hands process_row, over the responses it is driven with
PipelineResults == {geocode_address(resp) : resp \in PipelineResponses}

\* __init__: the counters of a new processor
NewStats == [total |-> 0, needs_geocoding |-> 0, geocoded |-> 0, failed |-> 0,
             already_had_county |-> 0]

\* _needs_geocoding: a null value, or one that is empty or UNKNOWN once
\* stripped and upper-cased
_needs_geocoding(county_value) ==
    IF IsNa(county_value)
    THEN TRUE
    ELSE LET county_str == Upper(Strip(AsStr(county_value)))
         IN  county_str = <<>> \/ county_str = UNKNOWN

\* the mask of identify_missing_counties on one cell, without the strip
needs_geocoding_nostrip(v) ==
    \/ IsNa(v)
    \/ AsStr(v) = <<>>
    \/ Upper(AsStr(v)) = UNKNOWN

\* the mask of identify_missing_counties on one cell
needs_geocoding(v) ==
    \/ IsNa(v)
    \/ Strip(AsStr(v)) = <<>>
    \/ Upper(AsStr(v)) = UNKNOWN

\* df[needs_geocoding].index: the selected row positions, in dataset order
RECURSIVE MaskIndex(_, _)
MaskIndex(d, n) ==
    IF n = 0 THEN <<>>
    ELSE IF needs_geocoding(d[n].CountyName)
         THEN Append(MaskIndex(d, n - 1), n)
         ELSE MaskIndex(d, n - 1)

MissingIndex(d) == MaskIndex(d, Len(d))

\* a variant that counts the selected rows twice in already_had_county
IdentifyStats_skewed(st, d) ==
    [st EXCEPT !.needs_geocoding = Len(MissingIndex(d)),
               !.already_had_county = Len(d) - 2 * Len(MissingIndex(d))]

\* the counters identify_missing_counties sets
IdentifyStats(st, d) ==
    [st EXCEPT !.needs_geocoding = Len(MissingIndex(d)),
               !.already_had_county = Len(d) - Len(MissingIndex(d))]

\* a variant of process_row that writes whatever the lookup returned
ProcessRowDf_always(d, idx, county) ==
    [d EXCEPT ![idx].CountyName = IF PyTruthy(county) THEN county.s ELSE NaN]

\* a variant of process_row that writes the county to the row after idx
ProcessRowDf_shifted(d, idx, county) ==
    IF PyTruthy(county)
    THEN [i \in 1..Len(d) |->
            IF i = idx \/ i = idx + 1 THEN [d[i] EXCEPT !.CountyName = county.s]
            ELSE d[i]]
    ELSE d

\* process_row: the DataFrame after the lookup returned county
ProcessRowDf(d, idx, county) ==
    IF PyTruthy(county) THEN [d EXCEPT ![idx].CountyName = county.s] ELSE d

\* a variant of process_row that counts a failure as geocoded
ProcessRowStats_miscount(st, county) ==
    [st EXCEPT !.geocoded = @ + 1]

\* process_row: the counters after the lookup returned county
ProcessRowStats(st, county) ==
    IF PyTruthy(county) THEN [st EXCEPT !.geocoded = @ + 1]
    ELSE [st EXCEPT !.failed = @ + 1]

\* self.geocoder.geocode_address(...) called by process_row for row idx
LookupEvent(idx) == [ev |-> "lookup", row |-> idx, current |-> 0, total |-> 0]

\* self.geocoder.wait()
WaitEvent == [ev |-> "wait", row |-> 0, current |-> 0, total |-> 0]

\* a variant that numbers the rows from 0
CallbackEvent_from_zero(progress_num, total_to_process) ==
    [ev |-> "callback", row |-> 0, current |-> progress_num - 1,
     total |-> total_to_process]

\* progress_callback(progress_num, total_to_process)
CallbackEvent(progress_num, total_to_process) ==
    [ev |-> "callback", row |-> 0, current |-> progress_num,
     total |-> total_to_process]

Between == {"idle", "returned", "aborted"}

\* a variant whose loop ends after its first row
AfterRow_first_only == "returned"

\* where process_dataframe goes after a row is done
AfterRow == IF k < Len(selected) THEN "lookup" ELSE "returned"

\* a new program run: a new processor, and no DataFrame yet
Construct ==
    /\ pc \in Between
    /\ loaded
    /\ stats' = NewStats
    /\ runs' = 0
    /\ anySuccess' = FALSE
    /\ loaded' = FALSE
    /\ identified' = FALSE
    /\ df' = <<>>
    /\ geocodedRows' = {}
    /\ selected' = <<>>
    /\ snap' = <<>>
    /\ k' = 0
    /\ lastCounty' = None
    /\ hasCallback' = FALSE
    /\ events' = <<>>
    /\ pc' = "idle"

LoadCsv ==
    /\ pc = "idle"
    /\ ~loaded
    /\ \E file \in Files :
        /\ df' = ReadCsv(file)
        /\ stats' = [stats EXCEPT !.total = Len(ReadCsv(file))]
    /\ loaded' = TRUE
    /\ UNCHANGED <<pc, selected, k, hasCallback, runs, snap, identified,
                   geocodedRows, lastCounty, anySuccess, events>>

IdentifyMissingCounties ==
    /\ pc \in Between
    /\ loaded
    /\ stats' = IdentifyStats(stats, df)
    /\ selected' = MissingIndex(df)
    /\ snap' = df
    /\ identified' = TRUE
    /\ pc' = "idle"
    /\ UNCHANGED <<df, k, hasCallback, runs, loaded, geocodedRows, lastCounty,
                   anySuccess, events>>

\* process_dataframe up to the first row, or to its return when none is selected
ProcessDataframe ==
    /\ pc \in Between
    /\ loaded
    /\ runs < MaxRuns
    /\ \E cb \in BOOLEAN : hasCallback' = cb
    /\ stats' = IdentifyStats(stats, df)
    /\ selected' = MissingIndex(df)
    /\ snap' = df
    /\ identified' = TRUE
    /\ k' = 0
    /\ runs' = runs + 1
    /\ events' = <<>>
    /\ pc' = IF MissingIndex(df) = <<>> THEN "returned" ELSE "lookup"
    /\ UNCHANGED <<df, loaded, geocodedRows, lastCounty, anySuccess>>

ProcessRow ==
    /\ pc = "lookup"
    /\ \E r \in PipelineResults :
        LET idx == selected[k + 1]
        IN  IF r.exc # ""
            THEN /\ pc' = "aborted"
                 /\ UNCHANGED <<df, stats, k, geocodedRows, lastCounty, anySuccess>>
            ELSE /\ df' = ProcessRowDf(df, idx, r.val)
                 /\ stats' = ProcessRowStats(stats, r.val)
                 /\ geocodedRows' = IF PyTruthy(r.val) THEN geocodedRows \cup {idx}
                                    ELSE geocodedRows
                 /\ anySuccess' = (anySuccess \/ PyTruthy(r.val))
                 /\ lastCounty' = r.val
                 /\ k' = k + 1
                 /\ pc' = "wait"
    /\ events' = Append(events, LookupEvent(selected[k + 1]))
    /\ UNCHANGED <<selected, hasCallback, runs, snap, loaded, identified>>

Wait ==
    /\ pc = "wait"
    /\ pc' = IF hasCallback THEN "callback" ELSE AfterRow
    /\ lastCounty' = None
    /\ events' = Append(events, WaitEvent)
    /\ UNCHANGED <<df, stats, selected, k, hasCallback, runs, snap, loaded,
                   identified, geocodedRows, anySuccess>>

ProgressCallback ==
    /\ pc = "callback"
    /\ \E raises \in BOOLEAN : pc' = IF raises THEN "aborted" ELSE AfterRow
    /\ events' = Append(events, CallbackEvent(k, Len(selected)))
    /\ UNCHANGED <<df, stats, selected, k, hasCallback, runs, snap, loaded,
                   identified, geocodedRows, lastCounty, anySuccess>>

-----------------------------------------------------------------------------
(* DataCleaner.  A cell of the DataFrame it is given is null, a text, an    *)
(* integer or a float with an integral value; s is the text, n the number. *)

CNaN == [t |-> "nan", s |-> <<>>, n |-> 0]
CStr(s) == [t |-> "str", s |-> s, n |-> 0]
CInt(n) == [t |-> "int", s |-> <<>>, n |-> n]
CFloat(n) == [t |-> "float", s |-> <<>>, n |-> n]

Digits == <<"0","1","2","3","4","5","6","7","8","9">>

\* \d
IsDigit(c) == \E i \in 1..10 : Digits[i] = c

\* str of a natural number
RECURSIVE StrOfNat(_)
StrOfNat(n) ==
    IF n < 10 THEN <<Digits[n + 1]>>
    ELSE Append(StrOfNat(n \div 10), Digits[(n % 10) + 1])

\* Series.astype(str) on one cell
CellAsStr(c) ==
    CASE c.t = "nan" -> <<"n","a","n">>
      [] c.t = "str" -> c.s
      [] c.t = "int" -> StrOfNat(c.n)
      [] c.t = "float" -> StrOfNat(c.n) \o <<".","0">>

\* a variant that removes only the first non-digit (replace with n=1)
RECURSIVE RemoveNonDigits_first(_)
RemoveNonDigits_first(s) ==
    IF s = <<>> THEN <<>>
    ELSE IF IsDigit(Head(s)) THEN <<Head(s)>> \o RemoveNonDigits_first(Tail(s))
    ELSE Tail(s)

\* str.replace(r'\D', '', regex=True)
RemoveNonDigits(s) == SelectSeq(s, IsDigit)

CleanPhoneCell(c) == CStr(RemoveNonDigits(CellAsStr(c)))

\* df[col]
Column(d, col) == [i \in 1..Len(d.rows) |-> d.rows[i][col]]

\* df[col] = series
SetColumn(d, col, series) ==
    [d EXCEPT !.rows = [i \in 1..Len(d.rows) |->
        [c \in d.columns |-> IF c = col THEN series[i] ELSE d.rows[i][c]]]]

\* what a DataCleaner method hands back: the DataFrame as it left it
CleanResult(raised, d) == [raised |-> raised, df |-> d]

clean_phone_numbers(d) ==
    IF "BrokerPhoneNumber" \in d.columns
    THEN CleanResult(FALSE,
            SetColumn(d, "BrokerPhoneNumber",
                [i \in 1..Len(d.rows) |->
                    CleanPhoneCell(Column(d, "BrokerPhoneNumber")[i])]))
    ELSE CleanResult(FALSE, d)

IsLetter(c) == \E i \in 1..26 : LowerLetters[i] = c \/ UpperLetters[i] = c

\* str.lower on one character
LowerChar(c) ==
    IF \E i \in 1..26 : UpperLetters[i] = c
    THEN LowerLetters[CHOOSE i \in 1..26 : UpperLetters[i] = c]
    ELSE c

\* str.title: a letter after a letter is lower-cased, any other letter is
\* upper-cased
Title(s) ==
    [i \in 1..Len(s) |->
        IF ~IsLetter(s[i]) THEN s[i]
        ELSE IF i > 1 /\ IsLetter(s[i - 1]) THEN LowerChar(s[i])
        ELSE UpperChar(s[i])]

\* .str.strip().str.title() on one cell: a cell that is not a text gives NaN
NormalizeAddressCell(c) ==
    IF c.t = "str" THEN CStr(Title(Strip(c.s))) ELSE CNaN

\* the .str accessor raises AttributeError on a column that holds no text:
\* a numeric column, or the float column of an all-empty CSV column
StrAccessorRaises(d, col) ==
    /\ d.rows # <<>>
    /\ \A i \in 1..Len(d.rows) : d.rows[i][col].t # "str"

normalize_addresses(d) ==
    IF "StreetAddress" \in d.columns
    THEN IF StrAccessorRaises(d, "StreetAddress")
         THEN CleanResult(TRUE, d)
         ELSE CleanResult(FALSE,
                SetColumn(d, "StreetAddress",
                    [i \in 1..Len(d.rows) |->
                        NormalizeAddressCell(Column(d, "StreetAddress")[i])]))
    ELSE CleanResult(FALSE, d)

\* df[column].fillna(default_value, inplace=True): under copy-on-write the
\* column taken from df is a copy and df keeps its nulls
FillColumn(d, col, default_value, cow) ==
    IF cow THEN d
    ELSE SetColumn(d, col,
            [i \in 1..Len(d.rows) |->
                IF Column(d, col)[i].t = "nan" THEN default_value
                ELSE Column(d, col)[i]])

\* the loop over defaults.items()
RECURSIVE FillItems(_, _, _)
FillItems(d, items, cow) ==
    IF items = <<>> THEN d
    ELSE LET column == Head(items).key
             default_value == Head(items).val
         IN  FillItems(IF column \in d.columns
                       THEN FillColumn(d, column, default_value, cow)
                       ELSE d,
                       Tail(items), cow)

\* defaults is None or a dictionary, given as its items; both None and {}
\* are falsy
fill_missing_values(d, defaults, cow) ==
    IF defaults # <<>>
    THEN CleanResult(FALSE, FillItems(d, defaults, cow))
    ELSE CleanResult(FALSE, d)

Phone456 == <<"4","5","6">>
PhoneCells ==
    <<CNaN, CStr(<<"4","-","5","-","6">>), CInt(45), CFloat(45), CStr(Phone456)>>
OakSt == <<"1"," ","O","a","k"," ","S","t">>
AddressCells ==
    <<CNaN, CStr(<<" ","1"," ","o","A","K"," ","s","t","\t">>), CInt(12),
      CStr(<<"M","A","I","N"," ","3","r","d">>), CStr(OakSt)>>

ColumnSets ==
    {{"BrokerPhoneNumber", "StreetAddress"}, {"BrokerPhoneNumber"}, {"StreetAddress"}}

CleanRows(cols) ==
    {[c \in cols |-> IF c = "BrokerPhoneNumber" THEN PhoneCells[i] ELSE AddressCells[i]] :
        i \in 1..5}

CleanDataframes ==
    UNION {{[columns |-> cols, rows |-> r] : r \in SeqsUpTo(CleanRows(cols), MaxRows)} :
        cols \in ColumnSets}

DictItem(key, val) == [key |-> key, val |-> val]

UnknownDefault == <<"U","n","k","n","o","w","n">>

DefaultsArgs ==
    {<<>>,
     <<DictItem("StreetAddress", CStr(UnknownDefault))>>,
     <<DictItem("BrokerPhoneNumber", CInt(0))>>,
     <<DictItem("Price", CInt(0))>>,
     <<DictItem("BrokerPhoneNumber", CStr(<<"0">>)), DictItem("StreetAddress", CStr(UnknownDefault))>>}

NoDataframe == [columns |-> {}, rows |-> <<>>]

CleanIdle ==
    /\ cDf = NoDataframe
    /\ cOnce = NoDataframe
    /\ cCalls = 0
    /\ cMethod = ""
    /\ cDefaults = <<>>
    /\ cCow = FALSE
    /\ cRaised = FALSE

\* one more application of method m, whose result is res
Applied(m, res) ==
    /\ cCalls < MaxApply
    /\ cCalls = 0 \/ cMethod = m
    /\ cMethod' = m
    /\ cDf' = res.df
    /\ cRaised' = res.raised
    /\ cOnce' = IF cCalls = 0 THEN res.df ELSE cOnce
    /\ cCalls' = cCalls + 1
    /\ UNCHANGED cCow

CleanPhoneNumbers ==
    /\ Applied("clean_phone_numbers", clean_phone_numbers(cDf))
    /\ UNCHANGED cDefaults

NormalizeAddresses ==
    /\ Applied("normalize_addresses", normalize_addresses(cDf))
    /\ UNCHANGED cDefaults

\* the defaults are fixed by the first application
FillMissingValues ==
    \E defaults \in DefaultsArgs :
        /\ cCalls = 0 \/ cDefaults = defaults
        /\ Applied("fill_missing_values", fill_missing_values(cDf, defaults, cCow))
        /\ cDefaults' = defaults

AllColumns == {"StreetAddress", "City", "State", "Zipcode", "CountyName"}

FileIdle ==
    /\ dfColumns = AllColumns
    /\ saved = FALSE
    /\ outFile = <<>>

GeoIdle ==
    /\ gPc = "call"
    /\ gCalls = 0
    /\ gSent = 0
    /\ gWaits = 0
    /\ gResp = Reply(200, JNull)
    /\ gRet = [exc |-> "", val |-> None, sent |-> 0]

NoComparison ==
    [raised |-> FALSE, original_missing |-> 0, updated_missing |-> 0,
     records_updated |-> 0, success_rate |-> [kind |-> "finite", tenths |-> 0]]

HelperIdle ==
    /\ hCalled = FALSE
    /\ hNeeds = <<>>

UtilIdle ==
    /\ uOriginal = <<>>
    /\ uUpdated = <<>>
    /\ uPc = "start"
    /\ uComparison = NoComparison
    /\ uDir = <<>>

Init ==
    /\ df = <<>>
    /\ stats = NewStats
    /\ pc = "idle"
    /\ selected = <<>>
    /\ k = 0
    /\ hasCallback = FALSE
    /\ runs = 0
    /\ snap = <<>>
    /\ loaded = FALSE
    /\ identified = FALSE
    /\ geocodedRows = {}
    /\ lastCounty = None
    /\ anySuccess = FALSE
    /\ events = <<>>
    /\ GeoIdle
    /\ UtilIdle
    /\ HelperIdle
    /\ CleanIdle
    /\ FileIdle

Next ==
    \/ Construct /\ UNCHANGED <<gvars, uvars, hvars, cvars, fvars>>
    \/ LoadCsv /\ UNCHANGED <<gvars, uvars, hvars, cvars, fvars>>
    \/ IdentifyMissingCounties /\ UNCHANGED <<gvars, uvars, hvars, cvars, fvars>>
    \/ ProcessDataframe /\ UNCHANGED <<gvars, uvars, hvars, cvars, fvars>>
    \/ ProcessRow /\ UNCHANGED <<gvars, uvars, hvars, cvars, fvars>>
    \/ Wait /\ UNCHANGED <<gvars, uvars, hvars, cvars, fvars>>
    \/ ProgressCallback /\ UNCHANGED <<gvars, uvars, hvars, cvars, fvars>>

Spec == Init /\ [][Next]_vars

-----------------------------------------------------------------------------
(* A program that calls the geocoder directly, address after address *)

GeocodeAddress ==
    /\ gPc = "call"
    /\ gCalls < MaxCalls
    /\ \E resp \in Responses :
        LET r == geocode_address(resp) IN
        /\ gResp' = resp
        /\ gRet' = r
        /\ gSent' = gSent + r.sent
        /\ gPc' = IF r.exc # "" THEN "raised" ELSE "wait"
    /\ gCalls' = gCalls + 1
    /\ UNCHANGED gWaits

GeocoderWait ==
    /\ gPc = "wait"
    /\ gWaits' = gWaits + 1
    /\ gPc' = "call"
    /\ UNCHANGED <<gCalls, gSent, gResp, gRet>>

NextGeo ==
    \/ GeocodeAddress /\ UNCHANGED <<pvars, uvars, hvars, cvars, fvars>>
    \/ GeocoderWait /\ UNCHANGED <<pvars, uvars, hvars, cvars, fvars>>

SpecGeo == Init /\ [][NextGeo]_vars

-----------------------------------------------------------------------------
(* A program that only asks which rows need geocoding *)

InitSelect ==
    /\ df \in SelectionDataframes
    /\ stats = [NewStats EXCEPT !.total = Len(df)]
    /\ pc = "idle"
    /\ selected = <<>>
    /\ k = 0
    /\ hasCallback = FALSE
    /\ runs = 0
    /\ snap = <<>>
    /\ loaded = TRUE
    /\ identified = FALSE
    /\ geocodedRows = {}
    /\ lastCounty = None
    /\ anySuccess = FALSE
    /\ events = <<>>
    /\ GeoIdle
    /\ UtilIdle
    /\ HelperIdle
    /\ CleanIdle
    /\ FileIdle

\* the caller asks _needs_geocoding about the county of every row
NeedsGeocodingOfRows ==
    /\ ~hCalled
    /\ hNeeds' = [i \in 1..Len(df) |-> _needs_geocoding(df[i].CountyName)]
    /\ hCalled' = TRUE

NextSelect ==
    \/ IdentifyMissingCounties /\ UNCHANGED <<gvars, uvars, hvars, cvars, fvars>>
    \/ NeedsGeocodingOfRows /\ UNCHANGED <<pvars, gvars, uvars, cvars, fvars>>

SpecSelect == InitSelect /\ [][NextSelect]_vars

-----------------------------------------------------------------------------
(* DataAnalyzer.compare_csvs and DataAnalyzer.export_by_county *)

FultonCounty == <<"F","u","l","t","o","n"," ","C","o","u","n","t","y">>
Fulton_County == <<"F","u","l","t","o","n","_","C","o","u","n","t","y">>

UtilValues == {<<>>, DeKalb, FultonCounty, Fulton_County}
UtilFiles == SeqsUpTo({Row(a, c) : a \in Addresses, c \in UtilValues}, MaxRows)

\* df['CountyName'].isna().sum()
RECURSIVE CountNa(_, _)
CountNa(d, n) ==
    IF n = 0 THEN 0
    ELSE CountNa(d, n - 1) + (IF IsNa(d[n].CountyName) THEN 1 ELSE 0)

MissingCount(d) == CountNa(d, Len(d))

\* f"{(num / den * 100):.1f}%" on numpy integers: division by zero gives
\* nan or an infinity with a warning; otherwise the tenths of a percent,
\* rounded to the nearest
SuccessRate(num, den) ==
    IF den = 0
    THEN [kind |-> IF num = 0 THEN "nan" ELSE IF num > 0 THEN "inf" ELSE "-inf",
          tenths |-> 0]
    ELSE [kind |-> "finite", tenths |-> (2000 * num + den) \div (2 * den)]

compare_csvs(original, updated) ==
    LET original_missing == MissingCount(ReadCsv(original))
        updated_missing == MissingCount(ReadCsv(updated))
    IN  [raised |-> FALSE,
         original_missing |-> original_missing,
         updated_missing |-> updated_missing,
         records_updated |-> original_missing - updated_missing,
         success_rate |-> SuccessRate(original_missing - updated_missing,
                                      original_missing)]

\* the characters in code point order
CodeOrder == <<"\t", " ">> \o UpperLetters \o <<"_">> \o LowerLetters
Code(c) == CHOOSE i \in 1..Len(CodeOrder) : CodeOrder[i] = c

\* a < b as Python compares text
RECURSIVE TextLess(_, _)
TextLess(a, b) ==
    IF b = <<>> THEN FALSE
    ELSE IF a = <<>> THEN TRUE
    ELSE IF Head(a) # Head(b) THEN Code(Head(a)) < Code(Head(b))
    ELSE TextLess(Tail(a), Tail(b))

\* county_name.replace(' ', '_')
FileName(county) == [i \in 1..Len(county) |-> IF county[i] = " " THEN "_" ELSE county[i]]

\* the keys of df.groupby('CountyName'): the distinct values, missing dropped
GroupKeys(d) == {d[i].CountyName : i \in 1..Len(d)} \ {NaN}

\* the source positions of one group, in order
RECURSIVE GroupIndex(_, _, _)
GroupIndex(d, county, n) ==
    IF n = 0 THEN <<>>
    ELSE IF d[n].CountyName = county
         THEN Append(GroupIndex(d, county, n - 1), n)
         ELSE GroupIndex(d, county, n - 1)

\* the loop over the groups in key order: each group_df.to_csv(filename)
\* creates the file or replaces it
RECURSIVE WriteGroups(_, _, _)
WriteGroups(dir, d, keys) ==
    IF keys = {} THEN dir
    ELSE LET county == CHOOSE c \in keys : \A o \in keys \ {c} : TextLess(c, o)
             written == [name \in DOMAIN dir \cup {FileName(county)} |->
                            IF name = FileName(county)
                            THEN GroupIndex(d, county, Len(d))
                            ELSE dir[name]]
         IN  WriteGroups(written, d, keys \ {county})

export_by_county(input) ==
    WriteGroups(<<>>, ReadCsv(input), GroupKeys(ReadCsv(input)))

InitUtil ==
    /\ df = <<>>
    /\ stats = NewStats
    /\ pc = "idle"
    /\ selected = <<>>
    /\ k = 0
    /\ hasCallback = FALSE
    /\ runs = 0
    /\ snap = <<>>
    /\ loaded = FALSE
    /\ identified = FALSE
    /\ geocodedRows = {}
    /\ lastCounty = None
    /\ anySuccess = FALSE
    /\ events = <<>>
    /\ GeoIdle
    /\ uOriginal \in UtilFiles
    /\ uUpdated \in UtilFiles
    /\ uPc = "start"
    /\ uComparison = NoComparison
    /\ uDir = <<>>
    /\ HelperIdle
    /\ CleanIdle
    /\ FileIdle

CompareCsvs ==
    /\ uPc = "start"
    /\ uComparison' = compare_csvs(uOriginal, uUpdated)
    /\ uPc' = "compared"
    /\ UNCHANGED <<uOriginal, uUpdated, uDir>>

ExportByCounty ==
    /\ uPc = "start"
    /\ uDir' = export_by_county(uUpdated)
    /\ uPc' = "exported"
    /\ UNCHANGED <<uOriginal, uUpdated, uComparison>>

NextUtil ==
    \/ CompareCsvs /\ UNCHANGED <<pvars, gvars, hvars, cvars, fvars>>
    \/ ExportByCounty /\ UNCHANGED <<pvars, gvars, hvars, cvars, fvars>>

SpecUtil == InitUtil /\ [][NextUtil]_vars

-----------------------------------------------------------------------------
(* A program that applies one DataCleaner method again and again *)

InitClean ==
    /\ df = <<>>
    /\ stats = NewStats
    /\ pc = "idle"
    /\ selected = <<>>
    /\ k = 0
    /\ hasCallback = FALSE
    /\ runs = 0
    /\ snap = <<>>
    /\ loaded = FALSE
    /\ identified = FALSE
    /\ geocodedRows = {}
    /\ lastCounty = None
    /\ anySuccess = FALSE
    /\ events = <<>>
    /\ GeoIdle
    /\ UtilIdle
    /\ HelperIdle
    /\ cDf \in CleanDataframes
    /\ cOnce = NoDataframe
    /\ cCalls = 0
    /\ cMethod = ""
    /\ cDefaults = <<>>
    /\ cCow \in BOOLEAN
    /\ cRaised = FALSE
    /\ FileIdle

NextClean ==
    \/ CleanPhoneNumbers /\ UNCHANGED <<pvars, gvars, uvars, hvars, fvars>>
    \/ NormalizeAddresses /\ UNCHANGED <<pvars, gvars, uvars, hvars, fvars>>
    \/ FillMissingValues /\ UNCHANGED <<pvars, gvars, uvars, hvars, fvars>>

SpecClean == InitClean /\ [][NextClean]_vars

-----------------------------------------------------------------------------
(* main: one process_csv_file call on a new processor *)

\* the header of the input file: all the columns, or one of them missing
FileColumnSets ==
    {AllColumns, AllColumns \ {"CountyName"}, AllColumns \ {"StreetAddress"}}

\* the columns process_row reads from the row
AddressColumns == {"StreetAddress", "City", "State", "Zipcode"}

\* DataFrame.to_csv on one cell: a missing cell is written as an empty field
ToCsvCell(v) == IF IsNa(v) THEN <<>> ELSE v

\* DataFrame.to_csv(filepath, index=False)
ToCsv(d) ==
    [i \in 1..Len(d) |-> [d[i] EXCEPT !.CountyName = ToCsvCell(d[i].CountyName)]]

\* df = self.load_csv(input_file): pandas.read_csv raises on a file it
\* cannot read
FileLoadCsv ==
    /\ pc = "idle"
    /\ ~loaded
    /\ \E readable \in BOOLEAN :
        IF readable
        THEN /\ LoadCsv
             /\ \E cols \in FileColumnSets : dfColumns' = cols
        ELSE /\ pc' = "aborted"
             /\ UNCHANGED <<df, stats, selected, k, hasCallback, runs, snap, loaded,
                            identified, geocodedRows, lastCounty, anySuccess, events,
                            dfColumns>>
    /\ UNCHANGED <<saved, outFile>>

\* df = self.process_dataframe(df), without a callback: df['CountyName']
\* raises KeyError when the column is missing
FileProcessDataframe ==
    /\ pc = "idle"
    /\ loaded
    /\ IF "CountyName" \in dfColumns
       THEN /\ ProcessDataframe
            /\ hasCallback' = FALSE
       ELSE /\ pc' = "aborted"
            /\ UNCHANGED <<df, stats, selected, k, hasCallback, runs, snap, loaded,
                           identified, geocodedRows, lastCounty, anySuccess, events>>
    /\ UNCHANGED fvars

\* process_row: row['StreetAddress'] ... row['Zipcode'] raise KeyError when
\* the column is missing, before the lookup
FileProcessRow ==
    /\ pc = "lookup"
    /\ IF AddressColumns \subseteq dfColumns
       THEN ProcessRow
       ELSE /\ pc' = "aborted"
            /\ UNCHANGED <<df, stats, selected, k, hasCallback, runs, snap, loaded,
                           identified, geocodedRows, lastCounty, anySuccess, events>>
    /\ UNCHANGED fvars

\* the user interrupts the program while it sleeps in wait()
Interrupt ==
    /\ pc = "wait"
    /\ pc' = "aborted"
    /\ UNCHANGED <<df, stats, selected, k, hasCallback, runs, snap, loaded,
                   identified, geocodedRows, lastCounty, anySuccess, events>>
    /\ UNCHANGED fvars

\* self.save_csv(df, output_file), once process_dataframe has returned
SaveCsv ==
    /\ pc = "returned"
    /\ saved' = TRUE
    /\ outFile' = ToCsv(df)
    /\ pc' = "saved"
    /\ UNCHANGED <<df, stats, selected, k, hasCallback, runs, snap, loaded,
                   identified, geocodedRows, lastCounty, anySuccess, events>>
    /\ UNCHANGED dfColumns

\* self.print_summary()
PrintSummary ==
    /\ pc = "saved"
    /\ pc' = "done"
    /\ UNCHANGED <<df, stats, selected, k, hasCallback, runs, snap, loaded,
                   identified, geocodedRows, lastCounty, anySuccess, events>>
    /\ UNCHANGED fvars

NextFile ==
    \/ FileLoadCsv /\ UNCHANGED <<gvars, uvars, hvars, cvars>>
    \/ FileProcessDataframe /\ UNCHANGED <<gvars, uvars, hvars, cvars>>
    \/ FileProcessRow /\ UNCHANGED <<gvars, uvars, hvars, cvars>>
    \/ Wait /\ UNCHANGED <<gvars, uvars, hvars, cvars, fvars>>
    \/ Interrupt /\ UNCHANGED <<gvars, uvars, hvars, cvars>>
    \/ SaveCsv /\ UNCHANGED <<gvars, uvars, hvars, cvars>>
    \/ PrintSummary /\ UNCHANGED <<gvars, uvars, hvars, cvars>>

SpecFile == Init /\ [][NextFile]_vars

-----------------------------------------------------------------------------
(* Properties *)

Range(q) == {q[i] : i \in 1..Len(q)}

AllSpace(c) == \A i \in 1..Len(c) : c[i] \in {" ", "\t"}

unknown_lower == <<"u","n","k","n","o","w","n">>

IsUnknownAnyCase(c) ==
    /\ Len(c) = Len(UNKNOWN)
    /\ \A i \in 1..Len(c) : c[i] \in {UNKNOWN[i], unknown_lower[i]}

\* the needs-geocoding rule as the specification words it
NeedsGeocodingRule(c) == c = NaN \/ AllSpace(c) \/ IsUnknownAnyCase(c)

\* C1: identify_missing_counties selects a row iff its county is null, empty
\* after trimming, or "UNKNOWN" in any letter case; every other value,
\* a padded valid name included, is left out.
C1_SelectionRule ==
    identified =>
        \A i \in 1..Len(snap) :
            (i \in Range(selected)) <=> NeedsGeocodingRule(snap[i].CountyName)

C1_Witness ==
    /\ identified
    /\ Len(snap) = 2
    /\ snap[1].CountyName = <<" ","F","u","l","t","o","n","\t">>
    /\ snap[2].CountyName = <<"\t"," ">>
    /\ selected = <<2>>

\* C2: when process_dataframe returns, every row identify did not select is
\* what it was before the call, in every field.
C2_Frame ==
    pc = "returned" =>
        /\ Len(df) = Len(snap)
        /\ \A i \in 1..Len(df) : i \notin Range(selected) => df[i] = snap[i]

C2_Witness ==
    /\ pc = "returned"
    /\ Len(df) = 2
    /\ selected = <<1>>
    /\ df[1] # snap[1]
    /\ df[2] = snap[2]

\* C3: when process_dataframe returns, geocoded + failed equals the number
\* of rows selected in that run, on every run of the same processor.
C3_RunCounters ==
    pc = "returned" =>
        stats.geocoded + stats.failed = stats.needs_geocoding

\* C4 as claimed: needs_geocoding + already_had_county == total in every
\* state of the processor.
C4_AtAllTimes ==
    stats.needs_geocoding + stats.already_had_county = stats.total

\* C4 as amended: the equation holds once identify_missing_counties has run
\* on the DataFrame load_csv returned, during and after process_dataframe.
C4_AfterIdentify ==
    identified =>
        stats.needs_geocoding + stats.already_had_county = stats.total

C4_Witness ==
    /\ identified
    /\ pc = "wait"
    /\ stats.needs_geocoding = 1
    /\ stats.already_had_county = 1
    /\ stats.total = 2

\* C5: a failed lookup never changes the CountyName of a row that a
\* successful lookup has set, in the same run or a later one.
C5_NoOverwrite ==
    [][stats'.failed = stats.failed + 1 =>
          \A i \in geocodedRows : df'[i].CountyName = df[i].CountyName]_vars

C5_Witness ==
    /\ pc = "wait"
    /\ runs = 2
    /\ ~PyTruthy(lastCounty)
    /\ selected[k] \in geocodedRows
    /\ df[selected[k]].CountyName = Unknown

TransportFailed(resp) ==
    \/ resp.transport # "ok"
    \/ resp.delay > HttpTimeout
    \/ resp.status \notin 200..299
    \/ resp.malformed

IsShaped(data) ==
    /\ data.t = "obj" /\ "result" \in Keys(data)
    /\ LET r == Item(data, "result") IN
       /\ r.t = "obj" /\ "addressMatches" \in Keys(r)
       /\ LET ms == Item(r, "addressMatches") IN
          /\ ms.t = "arr" /\ ms.a # <<>>
          /\ ms.a[1].t = "obj" /\ "geographies" \in Keys(ms.a[1])
          /\ LET g == Item(ms.a[1], "geographies") IN
             /\ g.t = "obj" /\ "Counties" \in Keys(g)
             /\ LET cs == Item(g, "Counties") IN
                /\ cs.t = "arr" /\ cs.a # <<>>
                /\ cs.a[1].t = "obj" /\ "NAME" \in Keys(cs.a[1])
                /\ Item(cs.a[1], "NAME").t = "str"
                /\ Item(cs.a[1], "NAME").s # <<>>

FirstCountyName(data) ==
    Item(Item(Item(Item(Item(data, "result"), "addressMatches").a[1],
                   "geographies"), "Counties").a[1], "NAME")

\* C7: geocode_address returns the first county's NAME of the first match,
\* or null; any response that deviates from the shape gives null, never an
\* empty or partial value.
C7_CountyOrNull ==
    gCalls > 0 =>
        \/ gRet.val = None
        \/ /\ ~TransportFailed(gResp)
           /\ IsShaped(gResp.data)
           /\ gRet.val = FirstCountyName(gResp.data)

FailedLookupStep == pc = "lookup" /\ ~PyTruthy(lastCounty')

\* C8: a failed lookup leaves the DataFrame alone, adds one to failed only,
\* and the loop goes on; with a client that only returns null, the first
\* enrich of a processor ends with every selected row still unresolved,
\* failed == needs_geocoding and geocoded == 0.
C8_FailedLookup ==
    /\ [][FailedLookupStep =>
            /\ pc' = "wait"
            /\ df' = df
            /\ stats' = [stats EXCEPT !.failed = @ + 1]
            /\ k' = k + 1]_vars
    /\ []((pc = "returned" /\ runs = 1 /\ ~anySuccess) =>
            /\ stats.failed = stats.needs_geocoding
            /\ stats.geocoded = 0
            /\ df = snap
            /\ \A i \in Range(selected) : NeedsGeocodingRule(df[i].CountyName))

C8_Witness ==
    /\ pc = "returned"
    /\ runs = 1
    /\ ~anySuccess
    /\ stats.failed = 2
    /\ Len(selected) = 2

\* C9: compare_csvs does not raise when the original has no missing county
\* and reports a defined success rate; two identical snapshots give
\* records_updated == 0 and a defined success rate.
C9_DefinedRate ==
    uPc = "compared" =>
        /\ ~uComparison.raised
        /\ (uComparison.original_missing = 0 \/ uOriginal = uUpdated) =>
               uComparison.success_rate.kind = "finite"
        /\ uOriginal = uUpdated => uComparison.records_updated = 0

RECURSIVE SumRows(_, _)
SumRows(dir, names) ==
    IF names = {} THEN 0
    ELSE LET n == CHOOSE x \in names : TRUE IN
         Len(dir[n]) + SumRows(dir, names \ {n})

\* C10: the files export_by_county leaves hold total minus null-county rows
\* in all, and no row is in two files, also when two county names differ
\* only by a space against an underscore.
C10_Partition ==
    uPc = "exported" =>
        /\ SumRows(uDir, DOMAIN uDir) =
               Len(uUpdated) - MissingCount(ReadCsv(uUpdated))
        /\ \A a, b \in DOMAIN uDir :
               a # b => Range(uDir[a]) \cap Range(uDir[b]) = {}

\* C14: _needs_geocoding and the mask of identify_missing_counties are the
\* same predicate: once both were applied to a dataset, _needs_geocoding
\* answered True for a row exactly when identify selected that row.
C14_SamePredicate ==
    (identified /\ hCalled) =>
        \A i \in 1..Len(snap) : hNeeds[i] <=> (i \in Range(selected))

\* C11: each DataCleaner transform is idempotent: applied again to its own
\* result, with the same defaults, it leaves the dataset as the first
\* application left it, null cells and non-text cells included.
C11_Idempotent == cCalls >= 2 => cDf = cOnce

\* a float phone number was cleaned twice, and a padded lower-case address
\* was normalized twice
C11_Witness ==
    /\ cCalls >= 2
    /\ cDf.rows # <<>>
    /\ \/ /\ cMethod = "clean_phone_numbers"
          /\ "BrokerPhoneNumber" \in cDf.columns
          /\ cDf.rows[1]["BrokerPhoneNumber"] = CStr(<<"4","5","0">>)
       \/ /\ cMethod = "normalize_addresses"
          /\ "StreetAddress" \in cDf.columns
          /\ cDf.rows[1]["StreetAddress"] = CStr(OakSt)

\* what process_dataframe has done once the first j selected rows are
\* wholly dealt with
RECURSIVE RowsDone(_)
RowsDone(j) ==
    IF j = 0 THEN <<>>
    ELSE RowsDone(j - 1)
         \o <<[ev |-> "lookup", row |-> selected[j], current |-> 0, total |-> 0],
              [ev |-> "wait", row |-> 0, current |-> 0, total |-> 0]>>
         \o (IF hasCallback
             THEN <<[ev |-> "callback", row |-> 0, current |-> j,
                     total |-> Len(selected)]>>
             ELSE <<>>)

\* ... and what it has done at its current position
ExpectedEvents ==
    CASE pc \in {"lookup", "returned"} -> RowsDone(k)
      [] pc = "wait" ->
            RowsDone(k - 1)
            \o <<[ev |-> "lookup", row |-> selected[k], current |-> 0, total |-> 0]>>
      [] pc = "callback" ->
            RowsDone(k - 1)
            \o <<[ev |-> "lookup", row |-> selected[k], current |-> 0, total |-> 0],
                 [ev |-> "wait", row |-> 0, current |-> 0, total |-> 0]>>

\* C13: process_dataframe visits the selected rows in dataset order; for
\* the k-th of n it does one lookup, then one wait whatever the lookup
\* gave, then, if a callback was given, one callback with (k, n), and only
\* then looks up the next row; with n = 0 there is no callback; and the
\* callback step leaves the dataset and the counters alone.
C13_RowEvents ==
    /\ [](pc \in {"lookup", "wait", "callback", "returned"} =>
            /\ \A i, j \in 1..Len(selected) : i < j => selected[i] < selected[j]
            /\ events = ExpectedEvents)
    /\ [][pc = "callback" => (df' = df /\ stats' = stats)]_vars

\* a run with a callback got through two rows, one lookup failing and one
\* succeeding
C13_Witness ==
    /\ pc = "returned"
    /\ hasCallback
    /\ Len(selected) = 2
    /\ Len(events) = 6
    /\ stats.failed >= 1
    /\ stats.geocoded >= 1

\* C12: process_csv_file writes the output file only after every selected
\* row has been processed, and what it writes is the dataset as enrichment
\* left it; a run that an exception aborted, while loading or while
\* enriching, never calls save_csv.
C12_SaveAfterAllRows ==
    /\ saved =>
        /\ pc \in {"saved", "done"}
        /\ identified
        /\ k = Len(selected)
        /\ \A i \in 1..Len(selected) :
              \E e \in 1..Len(events) :
                  events[e].ev = "lookup" /\ events[e].row = selected[i]
        /\ outFile = ToCsv(df)
    /\ pc = "aborted" => (~saved /\ outFile = <<>>)

\* a run was aborted after it had enriched the first of two selected rows,
\* and nothing was written
C12_Witness ==
    /\ pc = "aborted"
    /\ Len(selected) = 2
    /\ k = 1
    /\ geocodedRows = {selected[1]}
    /\ ~saved

====
